---- MODULE Spec2Model ----
(***************************************************************************)
(* DB-AGENT: the two query modes of src/src/agent.py, the ingestion        *)
(* operations of src/src/ingestion.py and the orchestrator of              *)
(* src/App/main.py, as state machines over the relational store, the       *)
(* vector store and the language model.                                    *)
(***************************************************************************)
EXTENDS Integers, Sequences, FiniteSets, TLC

VARIABLES
    catalog,      \* relational store: the live catalog, column -> its attributes
    tenders,      \* relational store: the ids of the rows of the user table "tenders"
    q_pc,         \* query call: "idle", "validating", "executing", "returned"
    q_mode,       \* "sql" (run_sql_query) or "question" (run_question_query)
    q_input,      \* the text handed in: user_sql, or the language model's content
    q_sql,        \* the local sql / generated_sql
    q_log,        \* the relational operations of the call so far, with the engine's answers
    q_result,     \* the returned string, as its parts
    q_rows0,      \* tenders when the call began
    q_schema,     \* question mode: schema_list, the grounding context
    q_llm,        \* question mode: the prompts handed to llm.invoke in this call
    q_last,       \* the last completed call
    q_ground,     \* the last catalog fetch of question mode: what it read and returned
    q_prev,       \* the catalog fetch before that one
    tables_metadata,  \* relational store: the rows of tables_metadata
    meta_seq,     \* the last value of tables_metadata's id sequence
    s_status,     \* the last sync: "none", "ok" (returned) or "raised"
    s_env,        \* its environment
    s_before,     \* tables_metadata when it began
    s_again,      \* it came right after a sync of the same environment that returned
    s_done,       \* the number of INSERTs it executed
    n_pc,         \* normalization: "raw", "once", "twice"
    n_raw,        \* the template text q["template"]
    n_once,       \* its normalized text
    n_twice,      \* the normalized text, normalized
    coll_exists,  \* vector store: the collection exists
    points,       \* vector store: the points of the collection
    uuids,        \* the number of identifiers uuid4 has handed out
    i_status,     \* the last ingest_to_qdrant: "none", "ok", "warned", "raised"
    i_chunks,     \* the chunks it was given
    i_before,     \* the points of the collection when it began
    i_env,        \* the environment it was given
    i_failed,     \* the position of the chunk model.encode failed on, 0 if none
    queries,      \* relational store: the rows of queries
    queries_seq,  \* the last value of queries' id sequence
    execution_evidence,  \* relational store: the rows of execution_evidence
    evidence_seq, \* the last value of execution_evidence's id sequence
    g_status,     \* the last generate_evidence: "none", how it returned or where it raised
    g_id,         \* the query id it was given
    g_before,     \* the rows of execution_evidence when it began
    g_anchor,     \* a table named tenders was in the catalog when it began
    g_found,      \* a template of that id was stored when it began
    g_explain,    \* what its EXPLAIN answered, if it ran
    p_pc,         \* auto_ingest_pipeline: the step it is at, "done" or "raised"
    p_env,        \* its environment
    p_ids,        \* the query ids it read, in the order of the loop
    p_done,       \* the number of ids the loop has called generate_evidence for
    p_chunks,     \* the chunks it built
    c_op,         \* the relational operation in progress or just ended, "" if none
    c_env,        \* the environment whose engine it uses
    c_pc,         \* "idle", "block" (inside its with block), "returned", "raised"
    c_step,       \* the number of statements it has executed on its connection
    c_how,        \* how it left the block
    c_held        \* per engine, the number of connections checked out

queryVars ==
    <<q_pc, q_mode, q_input, q_sql, q_log, q_result, q_rows0, q_schema, q_llm, q_last,
      q_ground, q_prev>>
storeVars == <<catalog, tenders>>
metaVars == <<tables_metadata, meta_seq>>
syncVars == <<s_status, s_env, s_before, s_again, s_done>>
normVars == <<n_pc, n_raw, n_once, n_twice>>
connVars == <<c_op, c_env, c_pc, c_step, c_how, c_held>>
vectorVars == <<coll_exists, points, uuids>>
indexVars == <<i_status, i_chunks, i_before, i_env, i_failed>>
templateVars == <<queries, queries_seq>>
evidenceVars == <<execution_evidence, evidence_seq>>
collectVars == <<g_status, g_id, g_before, g_anchor, g_found, g_explain>>
pipeVars == <<p_pc, p_env, p_ids, p_done, p_chunks>>
vars ==
    <<storeVars, queryVars, metaVars, syncVars, normVars, connVars, vectorVars, indexVars,
      templateVars, evidenceVars, collectVars, pipeVars>>

\* what the calls of one part leave alone
knowledgeVars == <<templateVars, evidenceVars, collectVars, pipeVars>>
restOfQuery == <<metaVars, syncVars, normVars, connVars, vectorVars, indexVars, knowledgeVars>>
restOfSync == <<queryVars, normVars, connVars, vectorVars, indexVars, collectVars, pipeVars>>
restOfNorm ==
    <<storeVars, queryVars, metaVars, syncVars, connVars, vectorVars, indexVars,
      knowledgeVars>>
restOfIndex == <<storeVars, queryVars, metaVars, syncVars, normVars, connVars, knowledgeVars>>

(***************************************************************************)
(* SQL text.  A text is a sequence of pieces: whitespace characters and    *)
(* statements (a statement holds no leading or trailing whitespace).       *)
(***************************************************************************)
Whitespace == {" ", "\n"}

Stmts ==
    { "SELCT 1",                 \* rejected by the planner
      "SELECT 1/0",              \* plans, fails when run
      "SELECT * FROM tenders",   \* plans, returns the rows of tenders
      "DELETE FROM tenders" }    \* plans, returns no row set, changes tenders

SqlInputs == {<<s>> : s \in Stmts} \cup {<<" ", s, "\n">> : s \in Stmts}

RECURSIVE lstrip(_)
lstrip(s) == IF s # <<>> /\ Head(s) \in Whitespace THEN lstrip(Tail(s)) ELSE s

RECURSIVE rstrip(_)
rstrip(s) ==
    IF s # <<>> /\ s[Len(s)] \in Whitespace
    THEN rstrip(SubSeq(s, 1, Len(s) - 1))
    ELSE s

\* str.strip()
strip(s) == rstrip(lstrip(s))

(***************************************************************************)
(* The relational engine, as the code calls it.                            *)
(***************************************************************************)
TenderIds == {1, 2}

ConnError == "connection refused"

RECURSIVE RowsOf(_)
\* fetchall(): the rows of a set, in id order
RowsOf(S) ==
    IF S = {} THEN <<>>
    ELSE LET m == CHOOSE x \in S : \A y \in S : x <= y
         IN <<m>> \o RowsOf(S \ {m})

\* conn.execute(text(f"EXPLAIN {sql}")): the answers the engine can give.
\* A plan-only check changes no row (spec section 6).
ExplainResponses(sql) ==
    {[ok |-> FALSE, err |-> ConnError]} \cup
    (IF Len(sql) = 1 /\ sql[1] \in Stmts \ {"SELCT 1"}
     THEN {[ok |-> TRUE, err |-> ""]}
     ELSE {[ok |-> FALSE, err |-> "syntax error at or near"]})

\* conn.execute(text(sql)).fetchall(): the outcomes the engine can produce,
\* each with the rows of tenders it leaves.  Whether a data-modifying
\* statement outlives the connection (autocommit, a COMMIT in the text) is
\* the engine's: both outcomes are kept.
ExecOutcomes(sql, rows) ==
    {[ok |-> FALSE, rows |-> <<>>, err |-> ConnError, store |-> rows]} \cup
    (CASE sql = <<"SELECT * FROM tenders">> ->
            {[ok |-> TRUE, rows |-> RowsOf(rows), err |-> "", store |-> rows]}
       [] sql = <<"SELECT 1/0">> ->
            {[ok |-> FALSE, rows |-> <<>>, err |-> "division by zero", store |-> rows]}
       [] sql = <<"DELETE FROM tenders">> ->
            {[ok |-> FALSE, rows |-> <<>>,
              err |-> "This result object does not return rows", store |-> st]
               : st \in {rows, {}}}
       [] OTHER ->
            {[ok |-> FALSE, rows |-> <<>>, err |-> "syntax error at or near",
              store |-> rows]})

\* postgres_query's return value: json.dumps(rows), or "DB error: " + str(e)
postgres_query(out) ==
    IF out.ok
    THEN [kind |-> "json", rows |-> out.rows, msg |-> ""]
    ELSE [kind |-> "DB error", rows |-> <<>>, msg |-> out.err]

(***************************************************************************)
(* The live catalog (information_schema.columns).                          *)
(***************************************************************************)
Col(s, t, c) == [table_schema |-> s, table_name |-> t, column_name |-> c]

UserColumns ==
    { Col("public", "tenders", "id"),
      Col("public", "tenders", "title"),
      Col("egp", "tenders", "id") }

SystemColumns == { Col("pg_catalog", "pg_class", "oid") }

\* data_type, is_nullable = 'YES', column_default of a column
AttrSet ==
    { [data_type |-> "integer", nullable |-> TRUE, column_default |-> "NULL"],
      [data_type |-> "text", nullable |-> FALSE, column_default |-> "NULL"] }

SystemAttr == [data_type |-> "oid", nullable |-> FALSE, column_default |-> "NULL"]

\* every catalog: the system columns, and any of the user columns
WithSystem(f) ==
    [c \in DOMAIN f \cup SystemColumns |->
        IF c \in SystemColumns THEN SystemAttr ELSE f[c]]

Catalogs ==
    { WithSystem(f) : f \in UNION { [S -> AttrSet] : S \in SUBSET UserColumns } }

\* ORDER BY table_schema, table_name: the collation of the names in use
NameRank == [egp |-> 1, pg_catalog |-> 2, public |-> 3, pg_class |-> 1, tenders |-> 2]

OrderedBySchemaTable(seq) ==
    \A i \in 1..Len(seq), j \in 1..Len(seq) :
        i < j =>
            \/ NameRank[seq[i].table_schema] < NameRank[seq[j].table_schema]
            \/ /\ seq[i].table_schema = seq[j].table_schema
               /\ NameRank[seq[i].table_name] <= NameRank[seq[j].table_name]

\* WHERE table_schema NOT IN ('pg_catalog', 'information_schema')
Introspected(cat) ==
    {c \in DOMAIN cat : c.table_schema \notin {"pg_catalog", "information_schema"}}

\* the row orders the introspection query may return: the ORDER BY leaves the
\* columns of one table in any order
IntrospectionOrders(cat) ==
    LET S == Introspected(cat)
    IN {seq \in [1..Cardinality(S) -> S] :
            /\ \A c \in S : \E i \in 1..Cardinality(S) : seq[i] = c
            /\ OrderedBySchemaTable(seq)}

(***************************************************************************)
(* STRICT SQL MODE and QUESTION MODE (src/src/agent.py).                    *)
(***************************************************************************)
NoBody == [kind |-> "", rows |-> <<>>, msg |-> ""]
NoResult == [head |-> "", sql |-> <<>>, tail |-> "", body |-> NoBody]
NoCall == [mode |-> "", input |-> <<>>, log |-> <<>>, kind |-> ""]

\* the three strings run_sql_query returns
SqlSyntaxError(sql, e) ==
    [head |-> "Syntax Error Detected", sql |-> sql, tail |-> "Error:",
     body |-> [kind |-> "str(e)", rows |-> <<>>, msg |-> e]]
SqlNoRows(sql) ==
    [head |-> "Query Valid (No Syntax Errors)", sql |-> sql,
     tail |-> "No rows returned.", body |-> NoBody]
SqlResult(sql, result) ==
    [head |-> "Query Valid", sql |-> sql, tail |-> "Result:", body |-> result]

\* the three strings run_question_query returns
GeneratedInvalid(sql, e) ==
    [head |-> "Generated SQL Invalid", sql |-> sql, tail |-> "Error:",
     body |-> [kind |-> "str(e)", rows |-> <<>>, msg |-> e]]
GeneratedNoRows(sql) ==
    [head |-> "Generated SQL:", sql |-> sql, tail |-> "No rows returned.",
     body |-> NoBody]
GeneratedResult(sql, result) ==
    [head |-> "Generated SQL:", sql |-> sql, tail |-> "Result:", body |-> result]

\* not result or result == "[]"
IsNoRows(result) == result.kind = "json" /\ result.rows = <<>>

\* a run_sql_query that goes on to execute whatever the EXPLAIN answered
SqlAfterValidate_AlwaysExecute(a) == "executing"

\* run_sql_query after the EXPLAIN: return the syntax error, or go on
SqlAfterValidate(a) == IF a.ok THEN "executing" ELSE "returned"

\* run_sql_query's return after postgres_query
SqlReturn(sql, result) ==
    IF IsNoRows(result) THEN SqlNoRows(sql) ELSE SqlResult(sql, result)

\* a run_question_query that goes on to execute whatever the EXPLAIN answered
QuestionAfterValidate_AlwaysExecute(a) == "executing"

\* a run_question_query that asks the model again when the EXPLAIN fails
QuestionAfterValidate_Retry(a) == IF a.ok THEN "executing" ELSE "prompting"

\* run_question_query after the EXPLAIN
QuestionAfterValidate(a) == IF a.ok THEN "executing" ELSE "returned"

\* run_question_query's return after postgres_query
QuestionReturn(sql, result) ==
    IF IsNoRows(result) THEN GeneratedNoRows(sql) ELSE GeneratedResult(sql, result)

\* how a caller reads the returned string
Tag(r) ==
    CASE r.tail = "Error:" -> "syntax_error"
      [] r.tail = "No rows returned." -> "empty_result"
      [] r.tail = "Result:" -> "ok"
      [] OTHER -> ""

Entry(op, sql, ok, rows, err) ==
    [op |-> op, sql |-> sql, ok |-> ok, rows |-> rows, err |-> err]

Questions == {"What tables are available?"}

RunSqlQuery(user_sql) ==
    /\ q_pc = "idle"
    /\ q_mode' = "sql"
    /\ q_input' = user_sql
    /\ q_sql' = strip(user_sql)
    /\ q_pc' = "validating"
    /\ q_log' = <<>>
    /\ q_result' = NoResult
    /\ q_rows0' = tenders
    /\ q_schema' = <<>>
    /\ q_llm' = <<>>
    /\ UNCHANGED <<q_last, q_ground, q_prev, storeVars, restOfQuery>>

SqlValidate ==
    /\ q_pc = "validating" /\ q_mode = "sql"
    /\ \E a \in ExplainResponses(q_sql) :
          /\ q_log' = Append(q_log, Entry("EXPLAIN", q_sql, a.ok, <<>>, a.err))
          /\ q_pc' = SqlAfterValidate(a)
          /\ q_result' = IF q_pc' = "returned"
                          THEN SqlSyntaxError(q_sql, a.err) ELSE q_result
    /\ UNCHANGED <<q_mode, q_input, q_sql, q_rows0, q_schema, q_llm, q_last, q_ground, q_prev, storeVars, restOfQuery>>

SqlExecute ==
    /\ q_pc = "executing" /\ q_mode = "sql"
    /\ \E out \in ExecOutcomes(q_sql, tenders) :
          /\ tenders' = out.store
          /\ q_log' = Append(q_log, Entry("EXECUTE", q_sql, out.ok, out.rows, out.err))
          /\ q_result' = SqlReturn(q_sql, postgres_query(out))
    /\ q_pc' = "returned"
    /\ UNCHANGED <<q_mode, q_input, q_sql, q_rows0, q_schema, q_llm, q_last, q_ground, q_prev, catalog, restOfQuery>>

RunQuestionQuery(user_question) ==
    /\ q_pc = "idle"
    /\ q_mode' = "question"
    /\ q_input' = <<>>
    /\ q_sql' = <<>>
    /\ q_pc' = "fetching"
    /\ q_log' = <<>>
    /\ q_result' = NoResult
    /\ q_rows0' = tenders
    /\ q_schema' = <<>>
    /\ q_llm' = <<>>
    /\ UNCHANGED <<q_last, q_ground, q_prev, storeVars, restOfQuery>>

\* f"{row.table_schema}.{row.table_name}.{row.column_name}"
Identifier(c) == <<c.table_schema, ".", c.table_name, ".", c.column_name>>

\* an inventory read from the cached metadata rows
FetchedColumns_FromStore(cat, rows) ==
    LET S == {[table_schema |-> r.table_schema, table_name |-> r.table_name,
               column_name |-> r.column_name] : r \in rows}
    IN {seq \in [1..Cardinality(S) -> S] :
            /\ \A c \in S : \E i \in 1..Cardinality(S) : seq[i] = c
            /\ OrderedBySchemaTable(seq)}

\* SELECT table_schema, table_name, column_name FROM information_schema.columns
\* ... ORDER BY table_schema, table_name: tables_metadata is not read
FetchedColumns(cat, rows) == IntrospectionOrders(cat)

Grounding(cat, rows, list) ==
    [fetched |-> TRUE, catalog |-> cat, metadata |-> rows, schema |-> list]

QuestionFetch ==
    /\ q_pc = "fetching"
    /\ \/ /\ \E rows \in FetchedColumns(catalog, tables_metadata) :
                q_schema' = [i \in 1..Len(rows) |-> Identifier(rows[i])]
          /\ q_ground' = Grounding(catalog, tables_metadata, q_schema')
          /\ q_prev' = q_ground
          /\ q_pc' = "prompting"
       \/ /\ q_pc' = "raised"     \* the connection or the query fails: not caught
          /\ UNCHANGED <<q_schema, q_ground, q_prev>>
    /\ UNCHANGED <<q_mode, q_input, q_sql, q_log, q_result, q_rows0, q_llm, q_last, storeVars, restOfQuery>>

QuestionPrompt(user_question) ==
    /\ q_pc = "prompting"
    /\ q_llm' = Append(q_llm, [question |-> user_question, schema |-> q_schema])
    /\ \/ \E content \in SqlInputs :
             /\ q_input' = content
             /\ q_sql' = strip(content)
             /\ q_pc' = "validating"
       \/ /\ q_pc' = "raised"     \* llm.invoke fails: not caught
          /\ UNCHANGED <<q_input, q_sql>>
    /\ UNCHANGED <<q_mode, q_log, q_result, q_rows0, q_schema, q_last, q_ground, q_prev, storeVars, restOfQuery>>

QuestionValidate ==
    /\ q_pc = "validating" /\ q_mode = "question"
    /\ \E a \in ExplainResponses(q_sql) :
          /\ q_log' = Append(q_log, Entry("EXPLAIN", q_sql, a.ok, <<>>, a.err))
          /\ q_pc' = QuestionAfterValidate(a)
          /\ q_result' = IF q_pc' = "returned"
                          THEN GeneratedInvalid(q_sql, a.err) ELSE q_result
    /\ UNCHANGED <<q_mode, q_input, q_sql, q_rows0, q_schema, q_llm, q_last, q_ground, q_prev, storeVars, restOfQuery>>

QuestionExecute ==
    /\ q_pc = "executing" /\ q_mode = "question"
    /\ \E out \in ExecOutcomes(q_sql, tenders) :
          /\ tenders' = out.store
          /\ q_log' = Append(q_log, Entry("EXECUTE", q_sql, out.ok, out.rows, out.err))
          /\ q_result' = QuestionReturn(q_sql, postgres_query(out))
    /\ q_pc' = "returned"
    /\ UNCHANGED <<q_mode, q_input, q_sql, q_rows0, q_schema, q_llm, q_last, q_ground, q_prev, catalog, restOfQuery>>

\* the caller has the result (or the exception); the next call may begin
QueryDone ==
    /\ q_pc \in {"returned", "raised"}
    /\ q_pc' = "idle"
    /\ q_last' = IF q_pc = "returned"
                  THEN [mode |-> q_mode, input |-> q_input, log |-> q_log,
                        kind |-> Tag(q_result)]
                  ELSE q_last
    /\ UNCHANGED <<q_mode, q_input, q_sql, q_log, q_result, q_rows0, q_schema, q_llm,
                   q_ground, q_prev, storeVars, restOfQuery>>

(***************************************************************************)
(* Metadata tables and schema sync (src/src/ingestion.py).                 *)
(***************************************************************************)
Project == "eGP"
DbName == "egp_db"
Envs == {"dev", "qa"}

MaxSerial == 4

MetaRow(id, env, c, a) ==
    [id |-> id, project_name |-> Project, database_name |-> DbName,
     environment |-> env, table_schema |-> c.table_schema,
     table_name |-> c.table_name, column_name |-> c.column_name,
     data_type |-> a.data_type, nullable |-> a.nullable,
     default_value |-> a.column_default]

\* UNIQUE(project_name, database_name, environment, table_schema, table_name, column_name)
MetaKey(r) ==
    <<r.project_name, r.database_name, r.environment,
      r.table_schema, r.table_name, r.column_name>>

\* an insert that replaces the row in conflict
InsertMetadata_Overwrite(rows, id, env, c, a) ==
    {r \in rows : MetaKey(r) # MetaKey(MetaRow(id, env, c, a))}
        \cup {MetaRow(id, env, c, a)}

\* an insert without the conflict clause and without the UNIQUE constraint
InsertMetadata_Always(rows, id, env, c, a) == rows \cup {MetaRow(id, env, c, a)}

\* INSERT INTO tables_metadata ... ON CONFLICT DO NOTHING
InsertMetadata(rows, id, env, c, a) ==
    IF \E r \in rows : MetaKey(r) = MetaKey(MetaRow(id, env, c, a))
    THEN rows
    ELSE rows \cup {MetaRow(id, env, c, a)}

RECURSIVE InsertAll(_, _, _, _, _, _)
\* for _, row in df.iterrows(): the first n rows of df; every insert draws
\* the next id of the sequence, kept or not
InsertAll(rows, seq, env, df, cat, n) ==
    IF n = 0 THEN rows
    ELSE InsertMetadata(InsertAll(rows, seq, env, df, cat, n - 1),
                        seq + n, env, df[n], cat[df[n]])

\* a loop that misses the last row of df
IngestedRows_MissLast(rows, seq, env, df, cat) ==
    InsertAll(rows, seq, env, df, cat, IF Len(df) = 0 THEN 0 ELSE Len(df) - 1)

\* the table after the loop over the whole of df
IngestedRows(rows, seq, env, df, cat) ==
    InsertAll(rows, seq, env, df, cat, Len(df))

\* a connection that commits every INSERT as it is executed
AfterFailure_Partial(rows, seq, env, df, cat, n) == InsertAll(rows, seq, env, df, cat, n)

\* the with block is left by the exception before conn.commit(): the
\* connection is closed and the n INSERTs executed are rolled back
AfterFailure(rows, seq, env, df, cat, n) == rows

\* the last operation on the metadata or the schema was not a sync
SyncForgotten ==
    /\ s_status' = "none"
    /\ s_env' = ""
    /\ s_before' = {}
    /\ s_again' = FALSE
    /\ s_done' = 0

ingest_metadata_from_postgres(env) ==
    /\ \E df \in IntrospectionOrders(catalog) :
          /\ meta_seq + Len(df) <= MaxSerial
          /\ \/ /\ tables_metadata' =
                      IngestedRows(tables_metadata, meta_seq, env, df, catalog)
                /\ meta_seq' = meta_seq + Len(df)
                /\ s_done' = Len(df)
                /\ s_status' = "ok"          \* conn.commit(), st.success
             \/ \* the connection or a statement fails before the commit, after
                \* n INSERTs: the ids drawn are not given back
                \E n \in 0..Len(df) :
                   /\ meta_seq' = meta_seq + n
                   /\ s_done' = n
                   /\ tables_metadata' =
                         AfterFailure(tables_metadata, meta_seq, env, df, catalog, n)
                   /\ s_status' = "raised"
    /\ s_env' = env
    /\ s_before' = tables_metadata
    /\ s_again' = (s_status = "ok" /\ s_env = env)

\* the EXPLAIN of generate_evidence: not run, failed, or the plan it returned
NoExplain == [ran |-> FALSE, ok |-> FALSE, plan |-> <<>>]
ExplainFailed == [ran |-> TRUE, ok |-> FALSE, plan |-> <<>>]
Explained(plan) == [ran |-> TRUE, ok |-> TRUE, plan |-> plan]

\* no generate_evidence since the evidence table was created
CollectForgotten ==
    /\ g_status' = "none"
    /\ g_id' = 0
    /\ g_before' = {}
    /\ g_anchor' = FALSE
    /\ g_found' = FALSE
    /\ g_explain' = NoExplain

\* a reset that drops the templates and leaves the evidence table
create_pg_tables_KeepEvidence ==
    /\ tables_metadata' = {}
    /\ meta_seq' = 0
    /\ queries' = {}
    /\ queries_seq' = 0
    /\ UNCHANGED <<execution_evidence, evidence_seq>>
    /\ SyncForgotten
    /\ CollectForgotten

\* DROP TABLE IF EXISTS ... CASCADE of the three tables; PG_TABLES_SQL
create_pg_tables ==
    /\ tables_metadata' = {}
    /\ meta_seq' = 0
    /\ queries' = {}
    /\ queries_seq' = 0
    /\ execution_evidence' = {}
    /\ evidence_seq' = 0
    /\ SyncForgotten
    /\ CollectForgotten

\* auto_ingest_pipeline, step 2: DELETE FROM tables_metadata,
\* DELETE FROM execution_evidence
ClearOldMetadata ==
    /\ tables_metadata' = {}
    /\ execution_evidence' = {}
    /\ SyncForgotten
    /\ UNCHANGED <<meta_seq, evidence_seq>>

Sync(env) ==
    /\ ingest_metadata_from_postgres(env)
    /\ UNCHANGED <<storeVars, templateVars, evidenceVars, restOfSync>>

CreateTables ==
    /\ create_pg_tables
    /\ UNCHANGED <<storeVars, queryVars, normVars, connVars, vectorVars, indexVars, pipeVars>>

ClearMetadata ==
    /\ tables_metadata # {}
    /\ ClearOldMetadata
    /\ UNCHANGED <<storeVars, templateVars, restOfSync>>

\* DDL by the owners of the database: the live schema changes
SchemaChange(universe) ==
    /\ catalog' \in universe \ {catalog}
    /\ SyncForgotten
    /\ UNCHANGED <<tenders, metaVars, templateVars, evidenceVars, restOfSync>>

(***************************************************************************)
(* Query normalization (ingest_queries, src/src/ingestion.py).  A text is  *)
(* a sequence of characters.                                               *)
(***************************************************************************)
MaxLen == 4

\* the characters of the raw texts: letters, a dot, a dash, a digit, a quote
RawChars == {"a", "s", ".", "-", "1", "'"}

IsDigit(c) == c \in {"1"}
\* \w
IsWordChar(c) == c \in {"a", "s", "A", "S"} \/ IsDigit(c)

RECURSIVE WordEnd(_, _)
\* the end of the run of word characters that holds position i
WordEnd(t, i) == IF i < Len(t) /\ IsWordChar(t[i + 1]) THEN WordEnd(t, i + 1) ELSE i

RECURSIVE DigitEnd(_, _)
DigitEnd(t, i) == IF i < Len(t) /\ IsDigit(t[i + 1]) THEN DigitEnd(t, i + 1) ELSE i

\* the next quote after position i, or 0
NextQuote(t, i) ==
    IF \E j \in (i + 1)..Len(t) : t[j] = "'"
    THEN CHOOSE j \in (i + 1)..Len(t) :
            t[j] = "'" /\ \A k \in (i + 1)..(j - 1) : t[k] # "'"
    ELSE 0

\* the keyword of these texts: AS, in any case
IsKeyword(w) == Len(w) = 2 /\ w[1] \in {"a", "A"} /\ w[2] \in {"s", "S"}

UpperChar(c) == CASE c = "a" -> "A" [] c = "s" -> "S" [] OTHER -> c
Upper(w) == [i \in 1..Len(w) |-> UpperChar(w[i])]

RECURSIVE FormatFrom(_, _)
\* sqlparse.format(..., strip_comments=True, keyword_case="upper") from
\* position i on: a quoted string is kept as it is, a "--" comment runs to the
\* end of the line and is dropped, a word that is a keyword is upper-cased
FormatFrom(t, i) ==
    IF i > Len(t) THEN <<>>
    ELSE IF t[i] = "'" /\ NextQuote(t, i) # 0
    THEN SubSeq(t, i, NextQuote(t, i)) \o FormatFrom(t, NextQuote(t, i) + 1)
    ELSE IF t[i] = "-" /\ i < Len(t) /\ t[i + 1] = "-"
    THEN <<>>
    ELSE IF IsWordChar(t[i])
    THEN LET w == SubSeq(t, i, WordEnd(t, i))
         IN (IF IsKeyword(w) THEN Upper(w) ELSE w) \o FormatFrom(t, WordEnd(t, i) + 1)
    ELSE <<t[i]>> \o FormatFrom(t, i + 1)

sqlparse_format(t) == FormatFrom(t, 1)

RECURSIVE RemovePrefixFrom(_, _)
\* re.sub(r'\b\w+\.', '', normalized)
RemovePrefixFrom(t, i) ==
    IF i > Len(t) THEN <<>>
    ELSE IF IsWordChar(t[i])
    THEN LET e == WordEnd(t, i)
         IN IF e < Len(t) /\ t[e + 1] = "."
            THEN RemovePrefixFrom(t, e + 2)
            ELSE SubSeq(t, i, e) \o RemovePrefixFrom(t, e + 1)
    ELSE <<t[i]>> \o RemovePrefixFrom(t, i + 1)

RECURSIVE ReplaceDigitsFrom(_, _)
\* re.sub(r"\d+", "?", normalized)
ReplaceDigitsFrom(t, i) ==
    IF i > Len(t) THEN <<>>
    ELSE IF IsDigit(t[i])
    THEN <<"?">> \o ReplaceDigitsFrom(t, DigitEnd(t, i) + 1)
    ELSE <<t[i]>> \o ReplaceDigitsFrom(t, i + 1)

RECURSIVE ReplaceStringsFrom(_, _)
\* re.sub(r"'[^']*'", "?", normalized)
ReplaceStringsFrom(t, i) ==
    IF i > Len(t) THEN <<>>
    ELSE IF t[i] = "'" /\ NextQuote(t, i) # 0
    THEN <<"?">> \o ReplaceStringsFrom(t, NextQuote(t, i) + 1)
    ELSE <<t[i]>> \o ReplaceStringsFrom(t, i + 1)

\* the transform of ingest_queries
Normalize(t) ==
    ReplaceStringsFrom(
        ReplaceDigitsFrom(
            RemovePrefixFrom(sqlparse_format(t), 1), 1), 1)

RawTexts == UNION { [1..n -> RawChars] : n \in 0..MaxLen }

NormalizeTemplate ==
    /\ n_pc = "raw"
    /\ n_once' = Normalize(n_raw)
    /\ n_pc' = "once"
    /\ UNCHANGED <<n_raw, n_twice, restOfNorm>>

\* the stored template is handed in as a template again
NormalizeNormalized ==
    /\ n_pc = "once"
    /\ n_twice' = Normalize(n_once)
    /\ n_pc' = "twice"
    /\ UNCHANGED <<n_raw, n_once, restOfNorm>>

(***************************************************************************)
(* Qdrant ingestion (ingest_to_qdrant, src/src/ingestion.py, and           *)
(* create_qdrant_collection, src/src/utils.py).  A chunk is a dict that    *)
(* may hold the key content_text; a text is a sequence of words.           *)
(***************************************************************************)
MaxChunks == 2
MaxUuids == 2

Chunk(has, text) == [has_content_text |-> has, content_text |-> text]

ChunkTexts == { <<"Table:", "public.tenders">>, <<"Column:", "id">> }

\* the chunks a caller may hand in: with a text, with an empty text, without the key
Chunks ==
    {Chunk(TRUE, t) : t \in ChunkTexts} \cup {Chunk(TRUE, <<>>), Chunk(FALSE, <<>>)}

ChunkLists == UNION { [1..n -> Chunks] : n \in 0..MaxChunks }

\* a filter that lets every chunk through
HasContent_Always(chunk) == TRUE

\* not (not chunk.get("content_text"))
HasContent(chunk) == chunk.has_content_text /\ chunk.content_text # <<>>

\* model.encode(text).tolist()
Embedding(text) == <<"vector of", text>>

\* the point built for a chunk, keyed by a new uuid4
PointStruct(id, chunk, env) ==
    [id |-> id,
     vector |-> Embedding(chunk.content_text),
     payload |-> [chunkid |-> id, content_text |-> chunk.content_text,
                  project_name |-> Project, environment |-> env]]

RECURSIVE BuildPoints(_, _, _, _)
\* the loop over the first n chunks; used is the number of uuid4 values drawn so far
BuildPoints(chunks, n, used, env) ==
    IF n = 0 THEN <<>>
    ELSE LET before == BuildPoints(chunks, n - 1, used, env)
         IN IF HasContent(chunks[n])
            THEN Append(before, PointStruct(used + Len(before) + 1, chunks[n], env))
            ELSE before

Range(f) == {f[i] : i \in DOMAIN f}

\* a loop that writes each point as it is built
AfterEncodeFailure_Partial(stored, built) == stored \cup Range(built)

\* the exception leaves the loop before client.upsert: the list is dropped
AfterEncodeFailure(stored, built) == stored

ingest_to_qdrant(chunks, env) ==
    /\ i_chunks' = chunks
    /\ i_before' = points
    /\ i_env' = env
    /\ IF chunks = <<>>
       THEN \* "No chunks to ingest into Qdrant"
            /\ i_status' = "warned"
            /\ i_failed' = 0
            /\ UNCHANGED vectorVars
       ELSE \/ \* the vector store cannot be reached
               /\ i_status' = "raised"
               /\ i_failed' = 0
               /\ UNCHANGED vectorVars
            \/ \* create_qdrant_collection, then model.encode fails on chunk k
               \E k \in 1..Len(chunks) :
                  LET built == BuildPoints(chunks, k - 1, uuids, env)
                  IN /\ HasContent(chunks[k])
                     /\ uuids + Len(built) <= MaxUuids
                     /\ coll_exists' = TRUE
                     /\ i_status' = "raised"
                     /\ i_failed' = k
                     /\ uuids' = uuids + Len(built)
                     /\ points' = AfterEncodeFailure(points, built)
            \/ \* create_qdrant_collection, every chunk embedded
               LET built == BuildPoints(chunks, Len(chunks), uuids, env)
               IN /\ uuids + Len(built) <= MaxUuids
                  /\ coll_exists' = TRUE
                  /\ i_failed' = 0
                  /\ uuids' = uuids + Len(built)
                  /\ IF built = <<>>
                     THEN \* "No valid points to upsert"
                          /\ i_status' = "warned"
                          /\ UNCHANGED points
                     ELSE \* client.upsert
                          /\ i_status' = "ok"
                          /\ points' = {p \in points :
                                          \A b \in Range(built) : b.id # p.id}
                                       \cup Range(built)

\* no ingest_to_qdrant since the collection was reset or the session began
IndexForgotten ==
    /\ i_status' = "none"
    /\ i_chunks' = <<>>
    /\ i_before' = {}
    /\ i_env' = ""
    /\ i_failed' = 0

\* auto_ingest_pipeline, step 6: client.delete_collection
DeleteCollection ==
    /\ coll_exists' = FALSE
    /\ points' = {}
    /\ IndexForgotten
    /\ UNCHANGED uuids

IndexChunks(chunks, env) ==
    /\ ingest_to_qdrant(chunks, env)
    /\ UNCHANGED restOfIndex

ResetCollection ==
    /\ coll_exists
    /\ DeleteCollection
    /\ UNCHANGED restOfIndex

(***************************************************************************)
(* Query templates and execution evidence (ingest_queries and              *)
(* generate_evidence, src/src/ingestion.py).                               *)
(***************************************************************************)
MaxQueries == 2
MaxEvidence == 2

QueryDef(n, t) == [name |-> n, template |-> t]

\* the definitions a caller hands to ingest_queries: two names, and a second
\* definition under the first name
QueryLists ==
    { <<QueryDef("by_id", <<"1">>)>>,
      <<QueryDef("all", <<"a", ".", "s">>)>>,
      <<QueryDef("by_id", <<"1">>), QueryDef("all", <<"a", ".", "s">>)>>,
      <<QueryDef("by_id", <<"'", "a", "'">>)>> }

QueryRow(id, q, env) ==
    [id |-> id, query_name |-> q.name,
     normalized_template |-> Normalize(q.template), environment |-> env]

\* INSERT INTO queries ... ON CONFLICT DO NOTHING; query_name is UNIQUE
InsertQuery(rows, id, q, env) ==
    IF \E r \in rows : r.query_name = q.name
    THEN rows
    ELSE rows \cup {QueryRow(id, q, env)}

RECURSIVE InsertQueries(_, _, _, _, _)
\* for q in queries_list: the first n definitions
InsertQueries(rows, seq, queries_list, env, n) ==
    IF n = 0 THEN rows
    ELSE InsertQuery(InsertQueries(rows, seq, queries_list, env, n - 1),
                     seq + n, queries_list[n], env)

ingest_queries(queries_list, env) ==
    /\ queries_seq + Len(queries_list) <= MaxQueries
    /\ \/ /\ queries' = InsertQueries(queries, queries_seq, queries_list, env,
                                      Len(queries_list))
          /\ queries_seq' = queries_seq + Len(queries_list)     \* conn.commit()
       \/ \* the connection or an insert fails before the commit
          /\ \E n \in 0..Len(queries_list) : queries_seq' = queries_seq + n
          /\ UNCHANGED queries

\* the rows of a plan, as the words of their text
SeqScanRow == <<"Seq", "Scan", "on", "tenders">>
ParallelSeqScanRow == <<"Parallel", "Seq", "Scan", "on", "tenders">>
IndexScanRow == <<"Index", "Scan", "using", "tenders_pkey">>

\* the plans EXPLAIN may return for a template
Plans ==
    { <<IndexScanRow>>,
      <<SeqScanRow>>,
      <<IndexScanRow, ParallelSeqScanRow>>,
      <<SeqScanRow, SeqScanRow>> }

\* a test that looks at the first words of a row only
HasSeqScan_AtStart(row) == row[1] = "Seq" /\ row[2] = "Scan"

\* "Seq Scan" in str(row)
HasSeqScan(row) ==
    \E i \in 1..(Len(row) - 1) : row[i] = "Seq" /\ row[i + 1] = "Scan"

RECURSIVE AntiPatterns(_, _)
\* for row in explain_json: the rows from the i-th on
AntiPatterns(explain_json, i) ==
    IF i > Len(explain_json) THEN <<>>
    ELSE (IF HasSeqScan(explain_json[i]) THEN <<"sequential_scan">> ELSE <<>>)
             \o AntiPatterns(explain_json, i + 1)

EvidenceRow(id, query_id, explain_json) ==
    [id |-> id, query_id |-> query_id, explain_output |-> explain_json,
     anti_patterns |-> AntiPatterns(explain_json, 1)]

\* a lookup that finds the anchor table whatever the catalog holds
HasAnchor_Always(cat) == TRUE

\* information_schema.tables WHERE table_name='tenders'
HasAnchor(cat) == \E c \in DOMAIN cat : c.table_name = "tenders"

Raised == {"raised: connect", "raised: anchor lookup", "raised: SET search_path",
           "raised: template lookup", "raised: INSERT"}

generate_evidence(query_id, env) ==
    /\ g_id' = query_id
    /\ g_before' = execution_evidence
    /\ g_anchor' = (\E c \in DOMAIN catalog : c.table_name = "tenders")
    /\ g_found' = (\E q \in queries : q.id = query_id)
    /\ \/ /\ g_status' \in {"raised: connect", "raised: anchor lookup"}
          /\ g_explain' = NoExplain
          /\ UNCHANGED evidenceVars
       \/ /\ ~HasAnchor(catalog)
          /\ g_status' = "no anchor"            \* st.warning, return
          /\ g_explain' = NoExplain
          /\ UNCHANGED evidenceVars
       \/ /\ HasAnchor(catalog)
          /\ g_status' \in {"raised: SET search_path", "raised: template lookup"}
          /\ g_explain' = NoExplain
          /\ UNCHANGED evidenceVars
       \/ /\ HasAnchor(catalog)
          /\ \A q \in queries : q.id # query_id
          /\ g_status' = "no template"          \* return
          /\ g_explain' = NoExplain
          /\ UNCHANGED evidenceVars
       \/ /\ HasAnchor(catalog)
          /\ \E q \in queries : q.id = query_id
          /\ \/ /\ g_status' = "EXPLAIN failed"  \* st.warning, return
                /\ g_explain' = ExplainFailed
                /\ UNCHANGED evidenceVars
             \/ /\ evidence_seq < MaxEvidence
                /\ \E explain \in Plans :
                      /\ g_explain' = Explained(explain)
                      /\ \/ /\ execution_evidence' = execution_evidence \cup
                                  {EvidenceRow(evidence_seq + 1, query_id, explain)}
                            /\ evidence_seq' = evidence_seq + 1
                            /\ g_status' = "stored"    \* conn.commit(), st.success
                         \/ \* the INSERT fails: no row, the id may be drawn
                            /\ evidence_seq' \in {evidence_seq, evidence_seq + 1}
                            /\ UNCHANGED execution_evidence
                            /\ g_status' = "raised: INSERT"

\* another session hands definitions in
IngestQueries(queries_list, env) ==
    /\ ingest_queries(queries_list, env)
    /\ UNCHANGED <<storeVars, queryVars, metaVars, syncVars, normVars, connVars, vectorVars,
                   indexVars, evidenceVars, collectVars, pipeVars>>

\* a caller collects evidence for one query id
CollectEvidence(query_id, env) ==
    /\ generate_evidence(query_id, env)
    /\ UNCHANGED <<storeVars, queryVars, metaVars, syncVars, normVars, connVars, vectorVars,
                   indexVars, templateVars, pipeVars>>

(***************************************************************************)
(* The orchestrator (auto_ingest_pipeline, src/App/main.py), one action    *)
(* per numbered step; other sessions act between its steps.                *)
(***************************************************************************)
\* the orders in which a SELECT without ORDER BY may return the rows S
Orders(S) ==
    {f \in [1..Cardinality(S) -> S] : \A i, j \in DOMAIN f : f[i] = f[j] => i = j}

\* the chunk of a row of tables_metadata
MetadataChunk(row) ==
    Chunk(TRUE, <<"Table:", row.table_schema, row.table_name,
                  "Column:", row.column_name, "Data Type:", row.data_type,
                  "Nullable:", ToString(row.nullable),
                  "Default:", row.default_value>>)

\* the chunk of a row of execution_evidence: json.dumps(row.to_dict(), default=str)
EvidenceChunk(row) ==
    Chunk(TRUE, <<"id", ToString(row.id), "query_id", ToString(row.query_id),
                  "explain_output", ToString(row.explain_output),
                  "anti_patterns", ToString(row.anti_patterns)>>)

\* the chunks of step 5: metadata rows first, then evidence rows
BuiltChunks ==
    { [i \in 1..Len(m) |-> MetadataChunk(m[i])]
          \o [i \in 1..Len(e) |-> EvidenceChunk(e[i])] :
        m \in Orders(tables_metadata), e \in Orders(execution_evidence) }

\* an error that leaves the step: the run ends, the stores are as they were
PipelineRaises(others) ==
    /\ p_pc' = "raised"
    /\ UNCHANGED <<p_env, p_ids, p_done, p_chunks>>
    /\ UNCHANGED others

\* step 1: create_pg_tables(env).  The script runs the orchestrator until a
\* run has completed in the session ("auto_ingested" not in st.session_state)
PipelineCreate(env) ==
    /\ p_pc \in {"idle", "raised"}
    /\ IndexForgotten
    /\ p_env' = env
    /\ p_ids' = <<>>
    /\ p_done' = 0
    /\ p_chunks' = <<>>
    /\ \/ /\ create_pg_tables
          /\ p_pc' = "clear"
       \/ /\ p_pc' = "raised"
          /\ CollectForgotten
          /\ UNCHANGED <<metaVars, syncVars, templateVars, evidenceVars>>
    /\ UNCHANGED <<storeVars, queryVars, normVars, connVars, vectorVars>>

\* step 2: DELETE FROM tables_metadata, DELETE FROM execution_evidence
PipelineClear ==
    /\ p_pc = "clear"
    /\ \/ /\ ClearOldMetadata
          /\ p_pc' = "sync"
          /\ UNCHANGED <<p_env, p_ids, p_done, p_chunks>>
       \/ PipelineRaises(<<metaVars, syncVars, evidenceVars>>)
    /\ UNCHANGED <<storeVars, queryVars, normVars, connVars, vectorVars, indexVars,
                   templateVars, collectVars>>

\* step 3: ingest_metadata_from_postgres(env)
PipelineSync ==
    /\ p_pc = "sync"
    /\ ingest_metadata_from_postgres(p_env)
    /\ p_pc' = IF s_status' = "ok" THEN "ids" ELSE "raised"
    /\ UNCHANGED <<p_env, p_ids, p_done, p_chunks>>
    /\ UNCHANGED <<storeVars, queryVars, normVars, connVars, vectorVars, indexVars,
                   templateVars, evidenceVars, collectVars>>

\* step 4: pd.read_sql("SELECT id FROM queries", engine)
PipelineReadIds ==
    /\ p_pc = "ids"
    /\ \/ /\ \E rows \in Orders(queries) :
                p_ids' = [i \in 1..Len(rows) |-> rows[i].id]
          /\ p_pc' = "evidence"
          /\ UNCHANGED <<p_env, p_done, p_chunks>>
       \/ PipelineRaises(<<>>)
    /\ UNCHANGED <<storeVars, queryVars, metaVars, syncVars, normVars, connVars, vectorVars,
                   indexVars, templateVars, evidenceVars, collectVars>>

\* step 4: for qid in df["id"].tolist(): generate_evidence(qid, env)
PipelineEvidence ==
    /\ p_pc = "evidence"
    /\ p_done < Len(p_ids)
    /\ generate_evidence(p_ids[p_done + 1], p_env)
    /\ p_done' = p_done + 1
    /\ p_pc' = IF g_status' \in Raised THEN "raised" ELSE "evidence"
    /\ UNCHANGED <<p_env, p_ids, p_chunks>>
    /\ UNCHANGED <<storeVars, queryVars, metaVars, syncVars, normVars, connVars, vectorVars,
                   indexVars, templateVars>>

\* step 5: read both tables, build the chunks
PipelineRead ==
    /\ p_pc = "evidence"
    /\ p_done = Len(p_ids)
    /\ \/ /\ p_chunks' \in BuiltChunks
          /\ p_pc' = "reset"
          /\ UNCHANGED <<p_env, p_ids, p_done>>
       \/ PipelineRaises(<<>>)
    /\ UNCHANGED <<storeVars, queryVars, metaVars, syncVars, normVars, connVars, vectorVars,
                   indexVars, templateVars, evidenceVars, collectVars>>

\* step 6: client.delete_collection under try/except: pass
PipelineReset ==
    /\ p_pc = "reset"
    /\ \/ DeleteCollection
       \/ UNCHANGED <<vectorVars, indexVars>>
    /\ p_pc' = "index"
    /\ UNCHANGED <<p_env, p_ids, p_done, p_chunks>>
    /\ UNCHANGED <<storeVars, queryVars, metaVars, syncVars, normVars, connVars,
                   templateVars, evidenceVars, collectVars>>

\* ingest_to_qdrant(chunks, env)
PipelineIndex ==
    /\ p_pc = "index"
    /\ ingest_to_qdrant(p_chunks, p_env)
    /\ p_pc' = IF i_status' = "raised" THEN "raised" ELSE "done"
    /\ UNCHANGED <<p_env, p_ids, p_done, p_chunks>>
    /\ UNCHANGED <<storeVars, queryVars, metaVars, syncVars, normVars, connVars,
                   templateVars, evidenceVars, collectVars>>

\* a new session begins after a run has completed: its st.session_state holds
\* no "auto_ingested", the stores are as the run left them
NewSession ==
    /\ p_pc = "done"
    /\ p_pc' = "idle"
    /\ UNCHANGED <<p_env, p_ids, p_done, p_chunks>>
    /\ UNCHANGED <<storeVars, queryVars, metaVars, syncVars, normVars, connVars, vectorVars,
                   indexVars, templateVars, evidenceVars, collectVars>>

(***************************************************************************)
(* Connections.  Every relational operation runs its statements inside     *)
(* "with engine.connect() as conn:"; the engine of an environment is       *)
(* cached (get_postgres_engine, src/src/utils.py) and its pool hands the   *)
(* connection out and takes it back.                                       *)
(***************************************************************************)
\* the statements each operation executes on its connection, in order; the
\* loops of INSERTs are written with two rows
Block ==
    [create_pg_tables |->
        <<"SELECT current_database()", "SET search_path", "DROP execution_evidence",
          "DROP queries", "DROP tables_metadata", "PG_TABLES_SQL", "commit">>,
     auto_ingest_pipeline |->
        <<"DELETE FROM tables_metadata", "DELETE FROM execution_evidence", "commit">>,
     ingest_metadata_from_postgres |-> <<"read_sql", "INSERT", "INSERT", "commit">>,
     ingest_queries |-> <<"INSERT", "INSERT", "commit">>,
     generate_evidence |->
        <<"anchor lookup", "SET search_path", "template lookup", "EXPLAIN",
          "INSERT", "commit">>,
     postgres_query |-> <<"execute">>,
     run_sql_query |-> <<"EXPLAIN">>,
     run_question_query_fetch |-> <<"SELECT columns">>,
     run_question_query |-> <<"EXPLAIN">>]

Operations == DOMAIN Block

\* the statements after which a return inside the block may be taken
ReturnsAfter(op) ==
    CASE op = "generate_evidence" -> {1, 3}
      [] op = "postgres_query" -> {1}
      [] OTHER -> {}

\* the statements under a try inside the block whose except returns
CaughtInBlock(op) == IF op = "generate_evidence" THEN {4} ELSE {}

\* the operations whose with block is inside a try whose except returns a string
CaughtOutside == {"postgres_query", "run_sql_query", "run_question_query"}

\* a block that gives its connection back only when its last statement is done
Leave_AtEndOnly(held, how) == IF how = "end" THEN held - 1 ELSE held

\* Connection.__exit__: the with statement gives the connection back however
\* the block is left
Leave(held, how) == held - 1

\* engine.connect(): a connection is checked out, or the exception leaves the
\* with statement before its block
Connect(op, env) ==
    /\ c_pc = "idle"
    /\ c_op' = op
    /\ c_env' = env
    /\ c_step' = 0
    /\ \/ /\ c_held' = [c_held EXCEPT ![env] = @ + 1]
          /\ c_pc' = "block"
          /\ c_how' = ""
       \/ /\ c_held' = c_held
          /\ c_pc' = IF op \in CaughtOutside THEN "returned" ELSE "raised"
          /\ c_how' = "connect failed"
    /\ UNCHANGED <<storeVars, queryVars, metaVars, syncVars, normVars, vectorVars,
                   indexVars, knowledgeVars>>

\* the next statement of the block is executed
Execute ==
    /\ c_pc = "block"
    /\ c_step < Len(Block[c_op])
    /\ c_step' = c_step + 1
    /\ UNCHANGED <<c_op, c_env, c_pc, c_how, c_held>>
    /\ UNCHANGED <<storeVars, queryVars, metaVars, syncVars, normVars, vectorVars,
                   indexVars, knowledgeVars>>

\* the next statement of the block raises
StatementRaises ==
    /\ c_pc = "block"
    /\ c_step < Len(Block[c_op])
    /\ IF c_step + 1 \in CaughtInBlock(c_op)
       THEN /\ c_how' = "caught in block"
            /\ c_pc' = "returned"
       ELSE /\ c_how' = "exception"
            /\ c_pc' = IF c_op \in CaughtOutside THEN "returned" ELSE "raised"
    /\ c_held' = [c_held EXCEPT ![c_env] = Leave(@, c_how')]
    /\ UNCHANGED <<c_op, c_env, c_step>>
    /\ UNCHANGED <<storeVars, queryVars, metaVars, syncVars, normVars, vectorVars,
                   indexVars, knowledgeVars>>

\* a return inside the block
EarlyReturn ==
    /\ c_pc = "block"
    /\ c_step \in ReturnsAfter(c_op)
    /\ c_how' = "return"
    /\ c_pc' = "returned"
    /\ c_held' = [c_held EXCEPT ![c_env] = Leave(@, c_how')]
    /\ UNCHANGED <<c_op, c_env, c_step>>
    /\ UNCHANGED <<storeVars, queryVars, metaVars, syncVars, normVars, vectorVars,
                   indexVars, knowledgeVars>>

\* the last statement of the block is done
EndOfBlock ==
    /\ c_pc = "block"
    /\ c_step = Len(Block[c_op])
    /\ c_op # "postgres_query"        \* its last statement is the return
    /\ c_how' = "end"
    /\ c_pc' = "returned"
    /\ c_held' = [c_held EXCEPT ![c_env] = Leave(@, c_how')]
    /\ UNCHANGED <<c_op, c_env, c_step>>
    /\ UNCHANGED <<storeVars, queryVars, metaVars, syncVars, normVars, vectorVars,
                   indexVars, knowledgeVars>>

\* the caller goes on: the next operation may begin
OperationDone ==
    /\ c_pc \in {"returned", "raised"}
    /\ c_pc' = "idle"
    /\ c_op' = ""
    /\ c_env' = ""
    /\ c_step' = 0
    /\ c_how' = ""
    /\ UNCHANGED c_held
    /\ UNCHANGED <<storeVars, queryVars, metaVars, syncVars, normVars, vectorVars,
                   indexVars, knowledgeVars>>

(***************************************************************************)
(* Specifications: one per part of the system.                             *)
(***************************************************************************)
QueryIdle ==
    /\ q_pc = "idle"
    /\ q_mode = ""
    /\ q_input = <<>>
    /\ q_sql = <<>>
    /\ q_log = <<>>
    /\ q_result = NoResult
    /\ q_rows0 = tenders
    /\ q_schema = <<>>
    /\ q_llm = <<>>
    /\ q_last = NoCall
    /\ q_ground = [fetched |-> FALSE, catalog |-> catalog, metadata |-> {}, schema |-> <<>>]
    /\ q_prev = q_ground

NormIdle ==
    /\ n_pc = "raw"
    /\ n_raw = <<>>
    /\ n_once = <<>>
    /\ n_twice = <<>>

VectorEmpty ==
    /\ coll_exists = FALSE
    /\ points = {}
    /\ uuids = 0
    /\ i_status = "none"
    /\ i_chunks = <<>>
    /\ i_before = {}
    /\ i_env = ""
    /\ i_failed = 0

\* the metadata tables as create_pg_tables leaves them, no sync run yet
MetaCreated ==
    /\ tables_metadata = {}
    /\ meta_seq = 0
    /\ s_status = "none"
    /\ s_env = ""
    /\ s_before = {}
    /\ s_again = FALSE
    /\ s_done = 0
    /\ queries = {}
    /\ queries_seq = 0
    /\ execution_evidence = {}
    /\ evidence_seq = 0
    /\ g_status = "none"
    /\ g_id = 0
    /\ g_before = {}
    /\ g_anchor = FALSE
    /\ g_found = FALSE
    /\ g_explain = NoExplain

ConnIdle ==
    /\ c_op = ""
    /\ c_env = ""
    /\ c_pc = "idle"
    /\ c_step = 0
    /\ c_how = ""
    /\ c_held = [env \in Envs |-> 0]

PipelineIdle ==
    /\ p_pc = "idle"
    /\ p_env = ""
    /\ p_ids = <<>>
    /\ p_done = 0
    /\ p_chunks = <<>>

QueryCatalogs ==
    { WithSystem(f) : f \in [{Col("public", "tenders", "id"),
                              Col("public", "tenders", "title")} -> AttrSet] }

InitQuery ==
    /\ catalog \in QueryCatalogs
    /\ tenders \in SUBSET TenderIds
    /\ QueryIdle
    /\ MetaCreated
    /\ NormIdle
    /\ VectorEmpty
    /\ PipelineIdle
    /\ ConnIdle

NextQuery ==
    \/ \E user_sql \in SqlInputs : RunSqlQuery(user_sql)
    \/ SqlValidate
    \/ SqlExecute
    \/ \E user_question \in Questions : RunQuestionQuery(user_question)
    \/ QuestionFetch
    \/ \E user_question \in Questions : QuestionPrompt(user_question)
    \/ QuestionValidate
    \/ QuestionExecute
    \/ QueryDone

SpecQuery == InitQuery /\ [][NextQuery]_vars


\* the schema the sync runs against: one column of either type or absent,
\* one column there or not
SyncCatalogs ==
    { cat \in Catalogs :
        /\ Col("egp", "tenders", "id") \notin DOMAIN cat
        /\ Col("public", "tenders", "title") \in DOMAIN cat =>
              cat[Col("public", "tenders", "title")].data_type = "text" }

InitSync ==
    /\ catalog \in SyncCatalogs
    /\ tenders = {}
    /\ QueryIdle
    /\ MetaCreated
    /\ NormIdle
    /\ VectorEmpty
    /\ PipelineIdle
    /\ ConnIdle

NextSync ==
    \/ \E env \in Envs : Sync(env)
    \/ CreateTables
    \/ ClearMetadata
    \/ SchemaChange(SyncCatalogs)

SpecSync == InitSync /\ [][NextSync]_vars

InitNorm ==
    /\ catalog \in QueryCatalogs
    /\ tenders = {}
    /\ QueryIdle
    /\ MetaCreated
    /\ n_pc = "raw"
    /\ n_raw \in RawTexts
    /\ n_once = <<>>
    /\ n_twice = <<>>
    /\ VectorEmpty
    /\ PipelineIdle
    /\ ConnIdle

NextNorm ==
    \/ NormalizeTemplate
    \/ NormalizeNormalized

SpecNorm == InitNorm /\ [][NextNorm]_vars

InitIndex ==
    /\ catalog = CHOOSE cat \in QueryCatalogs : TRUE
    /\ tenders = {}
    /\ QueryIdle
    /\ MetaCreated
    /\ NormIdle
    /\ VectorEmpty
    /\ PipelineIdle
    /\ ConnIdle

\* the environment selects the collection (config["qdrant"]["collection"]):
\* the calls on one collection are those of the environment that wrote to it
CollectionEnvs == IF i_status = "none" THEN Envs ELSE {i_env}

NextIndex ==
    \/ \E chunks \in ChunkLists, env \in CollectionEnvs : IndexChunks(chunks, env)
    \/ ResetCollection

SpecIndex == InitIndex /\ [][NextIndex]_vars

\* the schema the orchestrator runs against: with the anchor table or without
PipelineCatalogs ==
    { WithSystem(f) : f \in UNION { [S -> {CHOOSE a \in AttrSet : a.data_type = "integer"}] :
                                      S \in SUBSET {Col("public", "tenders", "id")} } }

InitPipeline ==
    /\ catalog \in PipelineCatalogs
    /\ tenders = {}
    /\ QueryIdle
    /\ MetaCreated
    /\ NormIdle
    /\ VectorEmpty
    /\ PipelineIdle
    /\ ConnIdle

NextPipeline ==
    \/ \E env \in Envs : PipelineCreate(env)
    \/ PipelineClear
    \/ PipelineSync
    \/ PipelineReadIds
    \/ PipelineEvidence
    \/ PipelineRead
    \/ PipelineReset
    \/ PipelineIndex
    \/ \E queries_list \in QueryLists, env \in Envs : IngestQueries(queries_list, env)

SpecPipeline == InitPipeline /\ [][NextPipeline]_vars

\* the sessions of one environment, one after the other, on its stores
NextRerun ==
    \/ PipelineCreate("dev")
    \/ PipelineClear
    \/ PipelineSync
    \/ PipelineReadIds
    \/ PipelineEvidence
    \/ PipelineRead
    \/ PipelineReset
    \/ PipelineIndex
    \/ \E queries_list \in QueryLists : IngestQueries(queries_list, "dev")
    \/ NewSession

SpecRerun == InitPipeline /\ [][NextRerun]_vars

\* the schemas the collection runs against: the anchor table in no schema,
\* or in a schema other than public
EvidenceCatalogs ==
    { WithSystem(f) :
        f \in UNION { [S -> {CHOOSE a \in AttrSet : a.data_type = "integer"}] :
                        S \in SUBSET {Col("egp", "tenders", "id")} } }

\* the ids a caller may ask for: those the sequence can give, and one more
QueryIds == 1..(MaxQueries + 1)

InitEvidence ==
    /\ catalog \in EvidenceCatalogs
    /\ tenders = {}
    /\ QueryIdle
    /\ MetaCreated
    /\ NormIdle
    /\ VectorEmpty
    /\ PipelineIdle
    /\ ConnIdle

\* the environment selects the store only: the calls of one environment
NextEvidence ==
    \/ \E queries_list \in QueryLists : IngestQueries(queries_list, "dev")
    \/ \E query_id \in QueryIds : CollectEvidence(query_id, "dev")
    \/ CreateTables

SpecEvidence == InitEvidence /\ [][NextEvidence]_vars

InitConn ==
    /\ catalog = CHOOSE cat \in QueryCatalogs : TRUE
    /\ tenders = {}
    /\ QueryIdle
    /\ MetaCreated
    /\ NormIdle
    /\ VectorEmpty
    /\ PipelineIdle
    /\ ConnIdle

NextConn ==
    \/ \E op \in Operations, env \in Envs : Connect(op, env)
    \/ Execute
    \/ StatementRaises
    \/ EarlyReturn
    \/ EndOfBlock
    \/ OperationDone

SpecConn == InitConn /\ [][NextConn]_vars

\* the schema the questions are asked against: one table of two columns, one
\* of them of either type
GroundCatalogs ==
    { cat \in QueryCatalogs :
        cat[Col("public", "tenders", "title")].data_type = "text"
        /\ cat[Col("public", "tenders", "title")].nullable = FALSE }

\* the metadata tables after a sync of dev against the schema old, which may
\* have changed since: the rows are current or stale
MetaSynced(old) ==
    /\ tables_metadata =
          IngestedRows({}, 0, "dev", CHOOSE df \in IntrospectionOrders(old) : TRUE, old)
    /\ meta_seq = Cardinality(tables_metadata)
    /\ s_status = "none"
    /\ s_env = ""
    /\ s_before = {}
    /\ s_again = FALSE
    /\ s_done = 0
    /\ queries = {}
    /\ queries_seq = 0
    /\ execution_evidence = {}
    /\ evidence_seq = 0
    /\ g_status = "none"
    /\ g_id = 0
    /\ g_before = {}
    /\ g_anchor = FALSE
    /\ g_found = FALSE
    /\ g_explain = NoExplain

InitGround ==
    /\ catalog \in GroundCatalogs
    /\ tenders = {}
    /\ QueryIdle
    /\ \E old \in GroundCatalogs : MetaSynced(old)
    /\ NormIdle
    /\ VectorEmpty
    /\ PipelineIdle
    /\ ConnIdle

\* questions asked before and after the metadata store is cleared
NextGround ==
    \/ \E user_question \in Questions : RunQuestionQuery(user_question)
    \/ QuestionFetch
    \/ \E user_question \in Questions : QuestionPrompt(user_question)
    \/ QuestionValidate
    \/ QuestionExecute
    \/ QueryDone
    \/ ClearMetadata

SpecGround == InitGround /\ [][NextGround]_vars

(***************************************************************************)
(* Properties of the two query modes.                                      *)
(***************************************************************************)
StrictReturned == q_pc = "returned" /\ q_mode = "sql"
CheckFailed == Len(q_log) >= 1 /\ ~q_log[1].ok
CheckPassed == Len(q_log) >= 1 /\ q_log[1].ok
Executed == \E i \in 1..Len(q_log) : q_log[i].op = "EXECUTE"

\* C1 as stated: in strict mode, when the plan-only check fails, the execute
\* phase is never entered, the call ends with a syntax_error result carrying
\* the submitted SQL and the engine error text, and the rows of the store are
\* those from before the call.
C1_SubmittedSqlCarried ==
    (StrictReturned /\ CheckFailed) =>
        /\ ~Executed
        /\ Tag(q_result) = "syntax_error"
        /\ q_result.sql = q_input
        /\ q_result.body.msg = q_log[1].err
        /\ tenders = q_rows0

\* C1 as amended: in strict mode, when the plan-only check fails, the execute
\* phase is never entered (it is entered only after a check that passed), the
\* call ends with a syntax_error result carrying the submitted SQL with its
\* leading and trailing whitespace stripped (the text that was checked) and
\* the engine error text, and the rows of the store are those from before
\* the call.
C1_FailedCheckNeverExecutes ==
    /\ (q_mode = "sql" /\ q_pc = "executing") => CheckPassed
    /\ (StrictReturned /\ CheckFailed) =>
            /\ ~Executed
            /\ Len(q_log) = 1
            /\ Tag(q_result) = "syntax_error"
            /\ q_result.sql = strip(q_input)
            /\ q_result.body.msg = q_log[1].err
            /\ tenders = q_rows0

\* a strict-mode call on a padded text has returned after a failed check
C1_Witness ==
    /\ StrictReturned /\ CheckFailed
    /\ q_input # strip(q_input)
    /\ q_log[1].err # ConnError

\* C2: in strict mode, once validation has succeeded, the result is tagged
\* empty_result exactly when the execution succeeded with zero rows, and ok
\* exactly when it succeeded with at least one row, and the ok result carries
\* that row set.
C2_TagsFollowExecution ==
    (StrictReturned /\ CheckPassed /\ Len(q_log) = 2) =>
        LET x == q_log[2]
        IN /\ Tag(q_result) = "empty_result" <=> (x.ok /\ x.rows = <<>>)
           /\ Tag(q_result) = "ok" <=> (x.ok /\ x.rows # <<>>)
           /\ Tag(q_result) = "ok" =>
                 (q_result.body.kind = "json" /\ q_result.body.rows = x.rows)

\* C3: in either mode, when the execution fails after validation has passed,
\* the caller gets a failure outcome that carries the engine message and is
\* neither the ok nor the empty_result result.
C3_ExecutionFailureSurfaced ==
    (q_pc = "returned" /\ CheckPassed /\ Len(q_log) = 2 /\ ~q_log[2].ok) =>
        /\ Tag(q_result) \notin {"ok", "empty_result"}
        /\ q_result.body.msg = q_log[2].err

Min(a, b) == IF a <= b THEN a ELSE b

\* the engine gave both calls the same answers, as far as both asked
AnswersAgree(l1, l2) ==
    \A i \in 1..Min(Len(l1), Len(l2)) :
        /\ l1[i].ok = l2[i].ok
        /\ l1[i].rows = l2[i].rows
        /\ l1[i].err = l2[i].err

SameOperations(l1, l2) ==
    /\ Len(l1) = Len(l2)
    /\ \A i \in 1..Len(l1) : l1[i].op = l2[i].op /\ l1[i].sql = l2[i].sql

OrderedOperations(l) ==
    /\ Len(l) \in {1, 2}
    /\ l[1].op = "EXPLAIN"
    /\ Len(l) = 2 => (l[1].ok /\ l[2].op = "EXECUTE")

ComparableCalls ==
    /\ q_pc = "returned"
    /\ q_last.mode # "" /\ q_last.mode # q_mode
    /\ q_last.input = q_input
    /\ AnswersAgree(q_last.log, q_log)

\* C4: a question-mode call whose language model returned G and a strict-mode
\* call given G, answered alike by the engine, perform the same relational
\* operations on G (the plan-only check, then the execution only after a
\* check that passed) and reach the same outcome kind.
C4_SameProtocolBothModes ==
    ComparableCalls =>
        /\ SameOperations(q_last.log, q_log)
        /\ OrderedOperations(q_log)
        /\ q_last.kind = Tag(q_result)

\* a question-mode call has returned rows for the text a strict-mode call ran
C4_Witness ==
    /\ ComparableCalls
    /\ q_mode = "question" /\ q_last.mode = "sql"
    /\ Len(q_log) = 2 /\ q_log[2].ok /\ q_log[2].rows # <<>>

Count(l, op) == Cardinality({i \in 1..Len(l) : l[i].op = op})

QueryEnded == q_pc \in {"returned", "raised"}

\* C17 as stated: no retries and no correction in either mode: per call, the
\* plan-only check runs exactly once and the execution at most once, the text
\* executed is the text validated, and in question mode the language model is
\* invoked exactly once per call, also when the validation of its output fails
\* (the result then carries the generated SQL and the engine error).
C17_ExactlyOncePerCall ==
    QueryEnded =>
        /\ Count(q_log, "EXPLAIN") = 1
        /\ Count(q_log, "EXECUTE") <= 1
        /\ \A i \in 1..Len(q_log) : q_log[i].sql = q_log[1].sql
        /\ q_mode = "question" =>
              /\ Len(q_llm) = 1
              /\ CheckFailed => (q_result.sql = q_sql /\ q_result.body.msg = q_log[1].err)

\* C17 as amended: no retries and no correction in either mode: per call, the
\* plan-only check and the execution run at most once each, and the check
\* exactly once in every call that returns a result; the text executed is the
\* text validated; in question mode the language model is invoked at most
\* once per call and exactly once in every call that returns a result, also
\* when the validation of its output fails (the result then carries the
\* generated SQL, stripped as it was validated, and the engine error).  A
\* question-mode call that ends with the exception of the catalog fetch or of
\* the language model runs no check.
C17_NoRetries ==
    /\ Count(q_log, "EXPLAIN") <= 1
    /\ Count(q_log, "EXECUTE") <= 1
    /\ Len(q_llm) <= 1
    /\ \A i \in 1..Len(q_log) : q_log[i].sql = q_sql
    /\ q_pc = "returned" =>
          /\ Count(q_log, "EXPLAIN") = 1
          /\ q_mode = "question" =>
                /\ Len(q_llm) = 1
                /\ q_sql = strip(q_input)
                /\ CheckFailed =>
                      /\ Len(q_log) = 1
                      /\ Tag(q_result) = "syntax_error"
                      /\ q_result.sql = q_sql
                      /\ q_result.body.msg = q_log[1].err
    /\ (q_pc = "raised" /\ q_mode = "question") => q_log = <<>>

\* a question-mode call has returned the engine's error for the text the
\* language model generated
C17_Witness ==
    /\ q_pc = "returned" /\ q_mode = "question"
    /\ CheckFailed
    /\ Len(q_llm) = 1
    /\ q_log[1].err # ConnError

(***************************************************************************)
(* Properties of the schema sync.                                          *)
(***************************************************************************)
LiveColumns(cat) ==
    {c \in DOMAIN cat : c.table_schema \notin {"pg_catalog", "information_schema"}}

RowsOfEnv(rows, env) == {r \in rows : r.environment = env}

IsRowOf(r, c) ==
    /\ r.table_schema = c.table_schema
    /\ r.table_name = c.table_name
    /\ r.column_name = c.column_name

\* the rows of env are the live columns: one row each with the current
\* attributes, no key twice, no row of a column that is gone
SnapshotEqualsCatalog(env) ==
    LET R == RowsOfEnv(tables_metadata, env)
    IN /\ \A c \in LiveColumns(catalog) :
            /\ Cardinality({r \in R : IsRowOf(r, c)}) = 1
            /\ \A r \in R : IsRowOf(r, c) =>
                  /\ r.data_type = catalog[c].data_type
                  /\ r.nullable = catalog[c].nullable
                  /\ r.default_value = catalog[c].column_default
       /\ \A r1, r2 \in R : MetaKey(r1) = MetaKey(r2) => r1 = r2
       /\ \A r \in R : \E c \in LiveColumns(catalog) : IsRowOf(r, c)

\* C5 as stated: after sync(env) returns, whatever the metadata store held
\* before, the metadata rows of env are exactly the introspected columns of
\* the live catalog with their current attributes, no duplicates, no leftovers.
C5_SnapshotAfterAnySync ==
    s_status = "ok" => SnapshotEqualsCatalog(s_env)

\* C5 as amended: after sync(env) returns on a metadata store that held no row
\* of env before the call, the metadata rows of env are exactly the
\* introspected columns of the live catalog with their current attributes,
\* no duplicates, no leftovers.
C5_SnapshotAfterSyncFromCleared ==
    (s_status = "ok" /\ RowsOfEnv(s_before, s_env) = {}) =>
        SnapshotEqualsCatalog(s_env)

\* a sync of two live columns has returned on a store that held only rows of
\* the other environment
C5_Witness ==
    /\ s_status = "ok"
    /\ s_before # {} /\ RowsOfEnv(s_before, s_env) = {}
    /\ Cardinality(LiveColumns(catalog)) = 2

\* C6: a sync(env) that runs right after a sync(env) that returned, the live
\* schema unchanged in between, leaves the metadata rows as the first left
\* them: nothing added, removed or changed.
C6_ResyncChangesNothing ==
    (s_status = "ok" /\ s_again) => tables_metadata = s_before

\* the second of two syncs of two live columns has returned
C6_Witness ==
    /\ s_status = "ok" /\ s_again
    /\ Cardinality(RowsOfEnv(tables_metadata, s_env)) = 2

\* C18: sync inserts by skipping conflicts, not by overwriting: a row stored
\* before sync(env) ran with the key (project, database, environment, schema,
\* table, column) of an introspected column keeps its data_type, nullable and
\* default exactly, and no second row with that key is created.
C18_ConflictingRowsKept ==
    s_status = "ok" =>
        /\ s_before \subseteq tables_metadata
        /\ \A r1, r2 \in tables_metadata : MetaKey(r1) = MetaKey(r2) => r1 = r2

\* a stored row of the environment whose column has changed its type since
StaleRows ==
    {r \in RowsOfEnv(s_before, s_env) :
        \E c \in LiveColumns(catalog) :
            IsRowOf(r, c) /\ r.data_type # catalog[c].data_type}

\* a sync has returned on a store that held a row with the key of a live
\* column and another data_type
C18_Witness ==
    /\ s_status = "ok"
    /\ StaleRows # {}

\* C19: an error at any point of sync(env) is fatal, it reaches the caller, and
\* as the inserts are committed once at the end, a sync that fails part-way
\* leaves the metadata store with exactly the rows it had before the call.
C19_FailedSyncLeavesStore ==
    s_status = "raised" => tables_metadata = s_before

\* a sync has failed after an INSERT, on a store that held rows of the other
\* environment only
C19_Witness ==
    /\ s_status = "raised"
    /\ s_done >= 1
    /\ s_before # {}
    /\ RowsOfEnv(s_before, s_env) = {}

(***************************************************************************)
(* Properties of the normalization.                                        *)
(***************************************************************************)
\* C7: normalization is idempotent: for every text q, normalizing the
\* normalized text gives the normalized text.
C7_NormalizeIdempotent ==
    n_pc = "twice" => n_twice = n_once

(***************************************************************************)
(* Properties of the vector ingestion.                                     *)
(***************************************************************************)
NonEmptyAt(chunks) ==
    {k \in 1..Len(chunks) :
        chunks[k].has_content_text /\ chunks[k].content_text # <<>>}

Added == points \ i_before

\* C10: a call of index on N chunks with a text and M chunks with an empty or
\* missing text, in any order, no embedding failing, adds exactly N points,
\* one per chunk with a text, each with an identifier that is new and its
\* own, and the payload content_text, project, environment.
C10_OnePointPerNonEmptyChunk ==
    i_status \in {"ok", "warned"} =>
        /\ i_before \subseteq points
        /\ Cardinality(Added) = Cardinality(NonEmptyAt(i_chunks))
        /\ \A p \in Added :
              /\ \A b \in i_before : b.id # p.id
              /\ \A p2 \in Added : p2.id = p.id => p2 = p
              /\ p.payload.project_name = Project
              /\ p.payload.environment = i_env
        /\ \A t \in ChunkTexts :
              Cardinality({p \in Added : p.payload.content_text = t}) =
              Cardinality({k \in NonEmptyAt(i_chunks) : i_chunks[k].content_text = t})

\* a call on chunks with and without a text has added points to a collection
\* that held some
C10_Witness ==
    /\ i_status = "ok"
    /\ i_before # {}
    /\ Len(i_chunks) = 2
    /\ Cardinality(NonEmptyAt(i_chunks)) = 1
    /\ \E k \in 1..2 : ~i_chunks[k].has_content_text

\* C15: an index call that ends with no valid point (the chunk list is empty,
\* or every chunk has an empty or missing text) warns and makes no call on the
\* vector store: no existence check, no creation of the collection, no upsert;
\* the vector store is as it was.
C15_NoStoreCallWithoutPoints ==
    [][i_status' = "warned" => (coll_exists' = coll_exists /\ points' = points)]_vars

\* C16: vector ingestion is all-or-nothing per index call: when the embedding
\* fails on the k-th chunk, none of the points of that call, those of the
\* chunks 1..k-1 included, is stored in the collection.
C16_EncodeFailureStoresNothing ==
    i_failed # 0 => (i_status = "raised" /\ points = i_before)

\* the embedding failed on the second chunk after a point was built for the
\* first, in a collection that held points
C16_Witness ==
    /\ i_failed = 2
    /\ 1 \in NonEmptyAt(i_chunks)
    /\ i_before # {}

(***************************************************************************)
(* Properties of the evidence collection.                                  *)
(***************************************************************************)
PipelineEnded == p_pc \in {"reset", "index", "done", "raised"}

\* the ways a collection fails that the batch is to survive: the two aborts
\* and the plan-only check, the schema-context change, the template lookup
\* and the persisting of the row
BatchFailures ==
    {"no anchor", "no template", "EXPLAIN failed", "raised: SET search_path",
     "raised: template lookup", "raised: INSERT"}

\* C8: in a batch run over the ids the orchestrator read, a failure of the
\* collection for one id (anchor table or template missing, schema-context
\* change, template lookup, plan-only check or persisting failing) never
\* keeps the collection from being attempted for the next: once the run has
\* left the loop, or ended, generate_evidence has been called for every id of
\* the batch.
C8_EveryIdAttempted ==
    (PipelineEnded /\ g_status \in BatchFailures \cup {"none", "stored"})
        => p_done = Len(p_ids)

MarkerIn(line) ==
    \E i \in 1..Len(line) :
        i < Len(line) /\ <<line[i], line[i + 1]>> = <<"Seq", "Scan">>

Tags(row) == {row.anti_patterns[i] : i \in DOMAIN row.anti_patterns}

\* C9: every stored evidence row carries the sequential-scan tag exactly when
\* some row of its plan contains the marker "Seq Scan"; a plan without the
\* marker has no tag at all.
C9_TaggedIffSeqScan ==
    \A row \in execution_evidence :
        /\ "sequential_scan" \in Tags(row)
              <=> \E i \in DOMAIN row.explain_output : MarkerIn(row.explain_output[i])
        /\ (\A i \in DOMAIN row.explain_output : ~MarkerIn(row.explain_output[i]))
              => row.anti_patterns = <<>>

\* two rows are stored, one of a plan whose marker is in its second row only
\* and one of an index-satisfied plan
C9_Witness ==
    /\ \E row \in execution_evidence :
          /\ Len(row.explain_output) = 2
          /\ ~MarkerIn(row.explain_output[1])
          /\ MarkerIn(row.explain_output[2])
    /\ \E row \in execution_evidence :
          \A i \in DOMAIN row.explain_output : ~MarkerIn(row.explain_output[i])

(***************************************************************************)
(* Properties of the stored templates and evidence rows.                   *)
(***************************************************************************)
\* C11: across the operations of the system a template, once stored, is
\* never changed or removed: every row of queries is still there, with its
\* id, name, normalized text and environment, after every step; a definition
\* whose name is already stored adds nothing.
C11_TemplatesNeverChange ==
    [][\A q \in queries : q \in queries']_vars

\* C12: in every reachable state every evidence row's query_id is the id of
\* a stored template.
C12_NoOrphanedEvidence ==
    \A e \in execution_evidence : \E q \in queries : q.id = e.query_id

\* evidence rows of two templates are stored
C12_Witness ==
    /\ Cardinality(execution_evidence) = 2
    /\ Cardinality({e.query_id : e \in execution_evidence}) = 2

\* the call got as far as an answer to its anchor lookup
AnchorAnswered ==
    g_status \notin {"none", "raised: connect", "raised: anchor lookup"}

\* the call got as far as an answer to its template lookup
TemplateAnswered ==
    /\ AnchorAnswered
    /\ g_status \notin {"no anchor", "raised: SET search_path",
                        "raised: template lookup"}

ReturnedUnchanged(how) ==
    /\ g_status = how
    /\ execution_evidence = g_before

\* C13: generate_evidence aborts without raising on each of its three lookup
\* or check failures: when the anchor lookup finds the table in no schema,
\* when the template lookup finds no template of the id, and when the EXPLAIN
\* of the substituted template fails, the call returns and the rows of
\* execution_evidence are those from before the call.
C13_AbortsReturnUnchanged ==
    /\ (AnchorAnswered /\ ~g_anchor) => ReturnedUnchanged("no anchor")
    /\ (TemplateAnswered /\ ~g_found) => ReturnedUnchanged("no template")
    /\ (g_explain.ran /\ ~g_explain.ok) => ReturnedUnchanged("EXPLAIN failed")

\* the EXPLAIN has failed in a call made when an evidence row was stored
C13_Witness ==
    /\ g_explain.ran /\ ~g_explain.ok
    /\ g_anchor /\ g_found
    /\ g_before # {}

NewRows == execution_evidence \ g_before

\* C14: when the anchor table is in some schema, a template of the id is
\* stored and the EXPLAIN succeeds, the call appends exactly one evidence row,
\* of that query id, the plan rows and their tags; no call appends more than
\* one row, or changes or removes a row that was there.
C14_OneRowAppended ==
    /\ (g_anchor /\ g_found /\ g_explain.ok) =>
          /\ Cardinality(NewRows) = 1
          /\ \A row \in NewRows :
                /\ row.query_id = g_id
                /\ row.explain_output = g_explain.plan
                /\ \A r \in g_before : r.id # row.id
    /\ g_status # "none" =>
          /\ g_before \subseteq execution_evidence
          /\ Cardinality(NewRows) <= 1

(***************************************************************************)
(* Properties of the connections.                                          *)
(***************************************************************************)
\* C20: every relational operation (create_pg_tables, sync, ingest_queries,
\* generate_evidence, postgres_query, the validate step and the catalog fetch
\* of the query modes) gives back the connection it acquired on every exit
\* path, early returns and raised or caught errors included: no connection is
\* held once the operation has returned or raised.
C20_NoConnectionHeldAfter ==
    /\ c_pc \in {"idle", "returned", "raised"} => \A env \in Envs : c_held[env] = 0
    /\ c_pc = "block" =>
          \A env \in Envs : c_held[env] = IF env = c_env THEN 1 ELSE 0

\* generate_evidence has returned from the except of its EXPLAIN, inside the
\* block, after three statements on its connection
C20_Witness ==
    /\ c_op = "generate_evidence"
    /\ c_pc = "returned"
    /\ c_how = "caught in block"
    /\ c_step = 3

(***************************************************************************)
(* Properties of the grounding context of question mode.                   *)
(***************************************************************************)
\* the list names every live non-system column once, by schema and table
IsInventory(list, cat) ==
    /\ Len(list) = Cardinality(LiveColumns(cat))
    /\ {list[i] : i \in 1..Len(list)} = {Identifier(c) : c \in LiveColumns(cat)}
    /\ \A i \in 1..Len(list), j \in 1..Len(list) :
          i < j =>
             \/ NameRank[list[i][1]] < NameRank[list[j][1]]
             \/ list[i][1] = list[j][1] /\ NameRank[list[i][3]] <= NameRank[list[j][3]]

\* two fetches against the same live catalog over different metadata rows
TwoFetches ==
    /\ q_ground.fetched /\ q_prev.fetched
    /\ q_ground.catalog = q_prev.catalog
    /\ q_ground.metadata # q_prev.metadata

HandedToModel == Len(q_llm) = 1 => q_llm[1].schema = q_ground.schema

\* C21 as stated: the grounding context of run_question_query depends on the
\* live catalog only: two runs with the same question and the same live
\* catalog over different contents of tables_metadata hand the language model
\* the identical list of schema.table.column identifiers, the live catalog's
\* non-system columns.
C21_SameListWhateverStored ==
    /\ HandedToModel
    /\ TwoFetches =>
          /\ q_ground.schema = q_prev.schema
          /\ IsInventory(q_ground.schema, q_ground.catalog)

\* C21 as amended: the grounding context of run_question_query depends on the
\* live catalog only and not on tables_metadata: every run hands the language
\* model a list that names each non-system column of the live catalog exactly
\* once, ordered by schema and table, so two runs with the same question and
\* the same live catalog over different contents of tables_metadata hand it
\* the same identifiers; the order of the columns of one table is the
\* engine's and may differ between the two lists.
C21_GroundingFromLiveCatalog ==
    /\ HandedToModel
    /\ q_ground.fetched => IsInventory(q_ground.schema, q_ground.catalog)
    /\ q_prev.fetched => IsInventory(q_prev.schema, q_prev.catalog)
    /\ TwoFetches =>
          /\ Len(q_ground.schema) = Len(q_prev.schema)
          /\ {q_ground.schema[i] : i \in 1..Len(q_ground.schema)} =
             {q_prev.schema[i] : i \in 1..Len(q_prev.schema)}

\* the language model has been handed the list of a run over an empty
\* metadata store, after a run against the same catalog over stale rows
C21_Witness ==
    /\ TwoFetches
    /\ Len(q_llm) = 1
    /\ q_ground.metadata = {}
    /\ \E r \in q_prev.metadata, c \in LiveColumns(q_prev.catalog) :
          IsRowOf(r, c) /\ r.data_type # q_prev.catalog[c].data_type

(***************************************************************************)
(* Properties of repeated orchestrator runs.                               *)
(***************************************************************************)
PointsWith(text) == {p \in points : p.payload.content_text = text}

ChunksWith(text) == {k \in 1..Len(p_chunks) : p_chunks[k].content_text = text}

\* C22: the orchestrator resets the vector collection before it indexes, so
\* after every run of auto_ingest_pipeline that completed, the second and
\* later runs against the same stores included, the collection holds exactly
\* one point per non-empty chunk built in that run and no point left over
\* from an earlier run.
C22_OnlyThisRunsPoints ==
    p_pc = "done" =>
        /\ Cardinality(points) = Cardinality(NonEmptyAt(p_chunks))
        /\ \A p \in points :
              Cardinality(PointsWith(p.payload.content_text)) =
              Cardinality(ChunksWith(p.payload.content_text))
        /\ \A k \in NonEmptyAt(p_chunks) : PointsWith(p_chunks[k].content_text) # {}

=============================================================================
